---- MODULE Spec2Model ----
(***************************************************************************)
(* A model of pmath: the inclusive-range extension, lerp, and the Vec2 /   *)
(* Vec3 / Vec4 operations and random samplers.                             *)
(*                                                                         *)
(* Numbers.  An f64 is modelled by a record [n, d, r, k] that stands for   *)
(*     (n / d) * sqrt(r) * Tiny^k        with Tiny = 1e-80,                *)
(* n and d coprime, d > 0, r square-free.  The three values IEEE adds to   *)
(* the reals are [0,0,1,0] (NaN) and [1,0,1,0], [-1,0,1,0] (the two        *)
(* infinities).  Multiplication, division and square root are exact.       *)
(* Addition is exact between numbers of the same radical and the same      *)
(* power of Tiny; between different powers of Tiny it returns the operand  *)
(* of larger magnitude, which is what f64 addition does when the operands  *)
(* differ by more than 2^53.  A sum or root that leaves this number system *)
(* is the marker Irr, which no comparison accepts.  Rounding of the last   *)
(* bit of an f64 result is not modelled.                                   *)
(***************************************************************************)
EXTENDS Integers, Sequences, FiniteSets, TLC

VARIABLES op, pc, args, cand, retried, ret

vars == <<op, pc, args, cand, retried, ret>>

(* ------------------------------ bounds -------------------------------- *)

\* Random components are drawn from the grid {i / GridK}.
GridK == 2
\* Vector arguments of lerp, reflect and random_on_hemisphere have integer
\* components in -VecK .. VecK.
VecK == 1
\* Range endpoints, clamp / surrounds values and expand deltas are integers
\* in -MaxCoord .. MaxCoord.
MaxCoord == 3

(* ------------------------------ numbers ------------------------------- *)

NaN == [n |-> 0, d |-> 0, r |-> 1, k |-> 0]

Irr == [n |-> 0, d |-> 0, r |-> 0, k |-> 0]

Zero == [n |-> 0, d |-> 1, r |-> 1, k |-> 0]

Abs(i) == IF i < 0 THEN -i ELSE i

RECURSIVE GCD(_, _)
GCD(a, b) == IF b = 0 THEN a ELSE GCD(b, a % b)

\* The largest s with s*s dividing m (m > 0).
SquarePart(m) ==
    LET S == {s \in 1..m : s * s <= m /\ m % (s * s) = 0}
    IN  CHOOSE s \in S : \A t \in S : t <= s

\* The number (n / d) * sqrt(r) * Tiny^k in normal form.
Mk(n, d, r, k) ==
    IF r = 0 THEN Irr
    ELSE IF d = 0 THEN
        (IF n = 0 THEN NaN
         ELSE [n |-> IF n > 0 THEN 1 ELSE -1, d |-> 0, r |-> 1, k |-> 0])
    ELSE IF n = 0 THEN Zero
    ELSE LET g == GCD(Abs(n), Abs(d))
             s == IF d < 0 THEN -1 ELSE 1
         IN  [n |-> (s * n) \div g, d |-> Abs(d) \div g, r |-> r, k |-> k]

Num(n, d) == Mk(n, d, 1, 0)

One == Num(1, 1)

IsNaN(x) == x.d = 0 /\ x.n = 0

\* x is a real number or an infinity: a value the comparisons order.
IsOrdered(x) == x.r # 0 /\ ~IsNaN(x)

Neg(x) == Mk(-x.n, x.d, x.r, x.k)

Mul(x, y) ==
    IF x.r = 0 \/ y.r = 0 THEN Irr
    ELSE LET g == GCD(x.r, y.r)
         IN  Mk(x.n * y.n * g, x.d * y.d, (x.r \div g) * (y.r \div g), x.k + y.k)

Recip(x) == IF x.r = 0 THEN Irr ELSE Mk(x.d, x.n * x.r, x.r, -x.k)

Div(x, y) == Mul(x, Recip(y))

Add(x, y) ==
    IF x.r = 0 \/ y.r = 0 THEN Irr
    ELSE IF IsNaN(x) \/ IsNaN(y) THEN NaN
    ELSE IF x.d = 0 /\ y.d = 0 THEN (IF x.n = y.n THEN x ELSE NaN)
    ELSE IF x.d = 0 THEN x
    ELSE IF y.d = 0 THEN y
    ELSE IF x.n = 0 THEN y
    ELSE IF y.n = 0 THEN x
    ELSE IF x.k < y.k THEN x
    ELSE IF y.k < x.k THEN y
    ELSE IF x.r = y.r THEN Mk(x.n * y.d + y.n * x.d, x.d * y.d, x.r, x.k)
    ELSE Irr

Sub(x, y) == Add(x, Neg(y))

Sqrt(x) ==
    IF x.r = 0 THEN Irr
    ELSE IF IsNaN(x) \/ x.n < 0 THEN NaN
    ELSE IF x.d = 0 THEN x
    ELSE IF x.n = 0 THEN Zero
    ELSE IF x.r # 1 \/ x.k % 2 # 0 THEN Irr
    ELSE LET m == x.n * x.d
             s == SquarePart(m)
         IN  Mk(s, x.d, m \div (s * s), x.k \div 2)

Less(x, y) == IsOrdered(x) /\ IsOrdered(y) /\ Sub(y, x).n > 0

NumEq(x, y) == IsOrdered(x) /\ IsOrdered(y) /\ x = y

LessEq(x, y) == Less(x, y) \/ NumEq(x, y)

\* f64::max and f64::min: a NaN operand yields the other operand.
Max(x, y) == IF IsNaN(x) THEN y ELSE IF IsNaN(y) THEN x ELSE IF Less(x, y) THEN y ELSE x

Min(x, y) == IF IsNaN(x) THEN y ELSE IF IsNaN(y) THEN x ELSE IF Less(y, x) THEN y ELSE x

(* --------------------------- range_extension -------------------------- *)

\* surrounds with the endpoints included.
surrounds_inclusive(range, value) ==
    LessEq(range.start, value) /\ LessEq(value, range.end)

surrounds(range, value) == Less(range.start, value) /\ Less(value, range.end)

\* clamp with min and max exchanged: value.min(start).max(end).
clamp_min_then_max(range, value) == Max(Min(value, range.start), range.end)

clamp(range, value) == Min(Max(value, range.start), range.end)

\* expand that pads each side by the whole delta.
expand_unhalved(range, delta) ==
    [start |-> Sub(range.start, delta), end |-> Add(range.end, delta)]

expand(range, delta) ==
    LET padding == Div(delta, Num(2, 1))
    IN  [start |-> Sub(range.start, padding), end |-> Add(range.end, padding)]

size(range) == Sub(range.end, range.start)

(* -------------------------------- Vec3 -------------------------------- *)

Vec3_new(x, y, z) == [x |-> x, y |-> y, z |-> z]

Vec3_add(self, rhs) ==
    [x |-> Add(self.x, rhs.x), y |-> Add(self.y, rhs.y), z |-> Add(self.z, rhs.z)]

Vec3_sub(self, rhs) ==
    [x |-> Sub(self.x, rhs.x), y |-> Sub(self.y, rhs.y), z |-> Sub(self.z, rhs.z)]

Vec3_neg(self) == Vec3_new(Neg(self.x), Neg(self.y), Neg(self.z))

Vec3_mul_f64(self, rhs) ==
    [x |-> Mul(self.x, rhs), y |-> Mul(self.y, rhs), z |-> Mul(self.z, rhs)]

Vec3_div_f64(self, rhs) ==
    [x |-> Div(self.x, rhs), y |-> Div(self.y, rhs), z |-> Div(self.z, rhs)]

\* impl Mul<Vec3> for f64: rhs * self
f64_mul_Vec3(self, rhs) == Vec3_mul_f64(rhs, self)

Vec3_length_squared(self) ==
    Add(Add(Mul(self.x, self.x), Mul(self.y, self.y)), Mul(self.z, self.z))

Vec3_length(self) == Sqrt(Vec3_length_squared(self))

Vec3_dot(self, rhs) ==
    Add(Add(Mul(self.x, rhs.x), Mul(self.y, rhs.y)), Mul(self.z, rhs.z))

\* reflect that takes the dot product of self with itself.
Vec3_reflect_self_dot(self, normal) ==
    Vec3_sub(self, f64_mul_Vec3(Mul(Num(2, 1), Vec3_dot(self, self)), normal))

Vec3_reflect(self, normal) ==
    Vec3_sub(self, f64_mul_Vec3(Mul(Num(2, 1), Vec3_dot(self, normal)), normal))

(* -------------------------------- utils ------------------------------- *)

\* lerp in the conventional order, (1 - fac) * self + fac * rhs.
f64_lerp_conventional(self, rhs, fac) == Add(Mul(Sub(One, fac), self), Mul(fac, rhs))

f64_lerp(self, rhs, fac) == Add(Mul(Sub(One, fac), rhs), Mul(fac, self))

Vec3_lerp(self, rhs, fac) ==
    Vec3_add(f64_mul_Vec3(Sub(One, fac), rhs), f64_mul_Vec3(fac, self))

(* ---------------------------- Vec2 and Vec4 --------------------------- *)

Vec2_new(x, y) == [x |-> x, y |-> y]

Vec2_div_f64(self, rhs) == [x |-> Div(self.x, rhs), y |-> Div(self.y, rhs)]

Vec2_length_squared(self) == Add(Mul(self.x, self.x), Mul(self.y, self.y))

Vec2_length(self) == Sqrt(Vec2_length_squared(self))

Vec2_normalized(self) == Vec2_div_f64(self, Vec2_length(self))

Vec4_new(x, y, z, w) == [x |-> x, y |-> y, z |-> z, w |-> w]

Vec4_div_f64(self, rhs) ==
    [x |-> Div(self.x, rhs), y |-> Div(self.y, rhs),
     z |-> Div(self.z, rhs), w |-> Div(self.w, rhs)]

Vec4_length_squared(self) ==
    Add(Add(Add(Mul(self.x, self.x), Mul(self.y, self.y)), Mul(self.z, self.z)),
        Mul(self.w, self.w))

Vec4_length(self) == Sqrt(Vec4_length_squared(self))

Vec4_normalized(self) == Vec4_div_f64(self, Vec4_length(self))

(* ------------------------------ samplers ------------------------------ *)

\* Components of magnitude about 1e-80, whose squares are about 1e-160.
TinyComps == {Mk(t, GridK, 1, 1) : t \in 1..GridK}

\* rng.gen_range(-1.0..=1.0)
GenSigned == {Num(i, GridK) : i \in -GridK..GridK} \cup TinyComps

\* rng.gen_range(-1.0..1.0): the upper end is excluded
GenSignedOpen == GenSigned \ {One}

\* rng.gen_range(0.0..=1.0)
GenUnit == {Num(i, GridK) : i \in 0..GridK} \cup TinyComps

\* Vec3::random_range(-1.0..=1.0)
Vec3_random_range == {Vec3_new(x, y, z) : x \in GenSigned, y \in GenSigned, z \in GenSigned}

\* The candidates of random_in_unit_disk
DiskCandidates == {Vec3_new(x, y, Zero) : x \in GenSignedOpen, y \in GenSignedOpen}

Vec2_random == {Vec2_new(x, y) : x \in GenUnit, y \in GenUnit}

Vec4_random ==
    {Vec4_new(x, y, z, w) : x \in GenUnit, y \in GenUnit, z \in GenUnit, w \in GenUnit}

\* 1e-160, the square of Tiny
MinLenSq == Mk(1, 1, 1, 2)

\* The sphere test with <= for <.
in_unit_sphere_accepts_closed(p) == LessEq(Vec3_length_squared(p), One)

\* if p.length_squared() < 1.0
in_unit_sphere_accepts(p) == Less(Vec3_length_squared(p), One)

\* if p.length_squared() < 1.0   (random_in_unit_disk)
in_unit_disk_accepts(p) == Less(Vec3_length_squared(p), One)

\* The unit-vector test without its lower bound.
unit_vector_accepts_no_floor(lensq) == LessEq(lensq, One)

\* if 1e-160 < lensq && lensq <= 1.0
unit_vector_accepts(lensq) == Less(MinLenSq, lensq) /\ LessEq(lensq, One)

\* return p / lensq.sqrt()
unit_vector_result(p) == Vec3_div_f64(p, Sqrt(Vec3_length_squared(p)))

\* on_hemisphere with its two branches exchanged.
on_hemisphere_exchanged(on_unit_sphere, normal) ==
    IF Less(Zero, Vec3_dot(on_unit_sphere, normal))
    THEN Vec3_neg(on_unit_sphere)
    ELSE on_unit_sphere

\* if on_unit_sphere.dot(normal) > 0.0 { on_unit_sphere } else { -on_unit_sphere }
on_hemisphere(on_unit_sphere, normal) ==
    IF Less(Zero, Vec3_dot(on_unit_sphere, normal))
    THEN on_unit_sphere
    ELSE Vec3_neg(on_unit_sphere)

\* The candidates each test accepts and the value random_unit_vector returns
\* for each, worked out once for the whole candidate set.
in_unit_sphere_accepted == {p \in Vec3_random_range : in_unit_sphere_accepts(p)}

in_unit_disk_accepted == {p \in DiskCandidates : in_unit_disk_accepts(p)}

unit_vector_accepted ==
    {p \in Vec3_random_range : unit_vector_accepts(Vec3_length_squared(p))}

unit_vector_results == [p \in unit_vector_accepted |-> unit_vector_result(p)]

(* ------------------------------- inputs ------------------------------- *)

None == [none |-> TRUE]

Coords == {Num(i, 1) : i \in -MaxCoord..MaxCoord}

\* Every pair of endpoints, start > end included (RangeInclusive accepts it),
\* and the range 0.0..=10.0.
Ranges ==
    {[start |-> s, end |-> e] : s \in Coords, e \in Coords}
        \cup {[start |-> Zero, end |-> Num(10, 1)]}

ArgVecs ==
    LET C == {Num(i, 1) : i \in -VecK..VecK}
    IN  {Vec3_new(x, y, z) : x \in C, y \in C, z \in C}

Facs == {Num(i, GridK) : i \in -1..(GridK + 1)}

\* The deltas of expand: negative, zero and positive, and 4.0.
Deltas == Coords \cup {Num(4, 1)}

(* ------------------------------- actions ------------------------------ *)

Init ==
    /\ op = "none"
    /\ pc = "idle"
    /\ args = None
    /\ cand = None
    /\ retried = FALSE
    /\ ret = None

\* A call of a function that returns in one step.
Return(name, a, value) ==
    /\ op' = name
    /\ args' = a
    /\ ret' = value
    /\ pc' = "done"
    /\ UNCHANGED <<cand, retried>>

Call_surrounds ==
    /\ pc = "idle"
    /\ \E range \in Ranges, value \in Coords :
        Return("surrounds", [range |-> range, value |-> value], surrounds(range, value))

Call_clamp ==
    /\ pc = "idle"
    /\ \E range \in Ranges, value \in Coords :
        Return("clamp", [range |-> range, value |-> value], clamp(range, value))

Call_expand ==
    /\ pc = "idle"
    /\ \E range \in Ranges, delta \in Deltas :
        Return("expand", [range |-> range, delta |-> delta], expand(range, delta))

Call_f64_lerp ==
    /\ pc = "idle"
    /\ \E self \in Coords, rhs \in Coords, fac \in Facs :
        Return("f64_lerp", [self |-> self, rhs |-> rhs, fac |-> fac],
               f64_lerp(self, rhs, fac))

Call_Vec3_lerp ==
    /\ pc = "idle"
    /\ \E self \in ArgVecs, rhs \in ArgVecs, fac \in Facs :
        Return("Vec3_lerp", [self |-> self, rhs |-> rhs, fac |-> fac],
               Vec3_lerp(self, rhs, fac))

Call_reflect ==
    /\ pc = "idle"
    /\ \E self \in ArgVecs, normal \in ArgVecs :
        Return("reflect", [self |-> self, normal |-> normal], Vec3_reflect(self, normal))

Call_Vec2_random_unit_vector ==
    /\ pc = "idle"
    /\ \E p \in Vec2_random :
        /\ op' = "Vec2_random_unit_vector"
        /\ cand' = p
        /\ ret' = Vec2_normalized(p)
        /\ pc' = "done"
        /\ UNCHANGED <<args, retried>>

Call_Vec4_random_unit_vector ==
    /\ pc = "idle"
    /\ \E p \in Vec4_random :
        /\ op' = "Vec4_random_unit_vector"
        /\ cand' = p
        /\ ret' = Vec4_normalized(p)
        /\ pc' = "done"
        /\ UNCHANGED <<args, retried>>

\* Entering the loop of a rejection sampler.
Enter(name, a) ==
    /\ pc = "idle"
    /\ op' = name
    /\ args' = a
    /\ pc' = "draw"
    /\ UNCHANGED <<cand, retried, ret>>

\* let p = ...: the loop body draws its candidate.
Draw(candidates) ==
    /\ pc = "draw"
    /\ \E p \in candidates : cand' = p
    /\ pc' = "test"
    /\ UNCHANGED <<op, args, retried, ret>>

\* if accepted { return value; }: otherwise p is dropped and the loop goes round.
Test(accepted, value) ==
    /\ pc = "test"
    /\ IF accepted
       THEN pc' = "done" /\ ret' = value /\ UNCHANGED <<cand, retried>>
       ELSE pc' = "draw" /\ cand' = None /\ retried' = TRUE /\ UNCHANGED ret
    /\ UNCHANGED <<op, args>>

Call_random_in_unit_sphere == Enter("random_in_unit_sphere", None)

random_in_unit_sphere_draw ==
    op = "random_in_unit_sphere" /\ Draw(Vec3_random_range)

\* The sphere loop with a cap: the second rejected candidate is returned.
random_in_unit_sphere_test_capped ==
    /\ op = "random_in_unit_sphere"
    /\ pc = "test"
    /\ IF cand \in in_unit_sphere_accepted \/ retried
       THEN pc' = "done" /\ ret' = cand /\ UNCHANGED <<cand, retried>>
       ELSE pc' = "draw" /\ cand' = None /\ retried' = TRUE /\ UNCHANGED ret
    /\ UNCHANGED <<op, args>>

random_in_unit_sphere_test ==
    op = "random_in_unit_sphere" /\ Test(cand \in in_unit_sphere_accepted, cand)

Call_random_unit_vector == Enter("random_unit_vector", None)

random_unit_vector_draw ==
    op = "random_unit_vector" /\ Draw(Vec3_random_range)

random_unit_vector_test ==
    /\ op = "random_unit_vector"
    /\ Test(cand \in unit_vector_accepted, unit_vector_results[cand])

Call_random_on_hemisphere ==
    /\ pc = "idle"
    /\ \E normal \in ArgVecs : Enter("random_on_hemisphere", [normal |-> normal])

random_on_hemisphere_draw ==
    op = "random_on_hemisphere" /\ Draw(Vec3_random_range)

random_on_hemisphere_test ==
    /\ op = "random_on_hemisphere"
    /\ Test(cand \in unit_vector_accepted,
            on_hemisphere(unit_vector_results[cand], args.normal))

Call_random_in_unit_disk == Enter("random_in_unit_disk", None)

random_in_unit_disk_draw ==
    op = "random_in_unit_disk" /\ Draw(DiskCandidates)

random_in_unit_disk_test ==
    op = "random_in_unit_disk" /\ Test(cand \in in_unit_disk_accepted, cand)

Next ==
    \/ Call_surrounds
    \/ Call_clamp
    \/ Call_expand
    \/ Call_f64_lerp
    \/ Call_Vec3_lerp
    \/ Call_reflect
    \/ Call_Vec2_random_unit_vector
    \/ Call_Vec4_random_unit_vector
    \/ Call_random_in_unit_sphere
    \/ random_in_unit_sphere_draw
    \/ random_in_unit_sphere_test
    \/ Call_random_unit_vector
    \/ random_unit_vector_draw
    \/ random_unit_vector_test
    \/ Call_random_on_hemisphere
    \/ random_on_hemisphere_draw
    \/ random_on_hemisphere_test
    \/ Call_random_in_unit_disk
    \/ random_in_unit_disk_draw
    \/ random_in_unit_disk_test

Spec == Init /\ [][Next]_vars

\* The three rejection loops on their own.
NextSamplers ==
    \/ Call_random_in_unit_sphere
    \/ random_in_unit_sphere_draw
    \/ random_in_unit_sphere_test
    \/ Call_random_unit_vector
    \/ random_unit_vector_draw
    \/ random_unit_vector_test
    \/ Call_random_in_unit_disk
    \/ random_in_unit_disk_draw
    \/ random_in_unit_disk_test

\* The draws are fair: a drawn candidate is always tested, and a loop that
\* draws again and again draws an accepted candidate eventually.
FairSpec ==
    /\ Init
    /\ [][NextSamplers]_vars
    /\ WF_vars(random_in_unit_sphere_test)
    /\ WF_vars(random_unit_vector_test)
    /\ WF_vars(random_in_unit_disk_test)
    /\ SF_vars(random_in_unit_sphere_draw /\ cand' \in in_unit_sphere_accepted)
    /\ SF_vars(random_unit_vector_draw /\ cand' \in unit_vector_accepted)
    /\ SF_vars(random_in_unit_disk_draw /\ cand' \in in_unit_disk_accepted)

(* ------------------------------- claims ------------------------------- *)

Done(name) == op = name /\ pc = "done"

\* C1: random_in_unit_sphere and random_in_unit_disk test each candidate as
\* it is drawn: one with length_squared() < 1 is returned at once, unchanged
\* (so the value returned is the first such candidate of the sequence), and
\* one with length_squared() >= 1 sends the loop round and is never returned.
C1_ReturnsFirstInsideUnitBall ==
    [][(pc = "test" /\ op \in {"random_in_unit_sphere", "random_in_unit_disk"})
          => IF Less(Vec3_length_squared(cand), One)
             THEN pc' = "done" /\ ret' = cand
                    /\ Less(Vec3_length_squared(ret'), One)
             ELSE pc' = "draw" /\ ret' = ret]_vars

\* A call of random_in_unit_sphere that rejected a candidate and then
\* returned a non-zero point inside the unit ball.
C1_Witness ==
    /\ Done("random_in_unit_sphere")
    /\ retried
    /\ ret = cand
    /\ Less(Zero, Vec3_length_squared(ret))
    /\ Less(Vec3_length_squared(ret), One)

\* C2: random_on_hemisphere(normal) returns d with d.dot(normal) >= 0: the
\* drawn unit vector itself when its dot product with normal is positive,
\* its negation otherwise.
C2_HemisphereNonNegativeDot ==
    Done("random_on_hemisphere") =>
        LET u == Vec3_div_f64(cand, Sqrt(Vec3_length_squared(cand)))
            n == args.normal
        IN  /\ LessEq(Zero, Vec3_dot(ret, n))
            /\ Less(Zero, Vec3_dot(u, n)) => ret = u
            /\ ~Less(Zero, Vec3_dot(u, n)) => ret = Vec3_neg(u)

\* A call whose unit vector pointed away from the normal and was negated.
C2_Witness ==
    /\ Done("random_on_hemisphere")
    /\ Less(Zero, Vec3_dot(ret, args.normal))
    /\ Less(Vec3_dot(Vec3_neg(ret), args.normal), Zero)
    /\ ret = Vec3_neg(Vec3_div_f64(cand, Sqrt(Vec3_length_squared(cand))))

\* C3: random_unit_vector sends the loop round on a candidate whose squared
\* length is at or below 1e-160 or above 1; any other candidate is returned
\* divided by its length, which is not zero (so the candidate is not the zero
\* vector), and the returned vector has length 1.
C3_UnitVectorHasLengthOne ==
    [][(pc = "test" /\ op = "random_unit_vector")
          => LET lensq == Vec3_length_squared(cand)
             IN  IF LessEq(lensq, MinLenSq) \/ Less(One, lensq)
                 THEN pc' = "draw" /\ ret' = ret
                 ELSE /\ pc' = "done"
                      /\ cand # Vec3_new(Zero, Zero, Zero)
                      /\ Less(Zero, Sqrt(lensq))
                      /\ ret' = Vec3_div_f64(cand, Sqrt(lensq))
                      /\ NumEq(Vec3_length(ret'), One)]_vars

\* A call that rejected a candidate and then returned, normalised to length
\* 1, a candidate whose squared length is of the order of 1e-160.
C3_Witness ==
    /\ Done("random_unit_vector")
    /\ retried
    /\ Vec3_length_squared(cand).k = 2
    /\ Less(MinLenSq, Vec3_length_squared(cand))
    /\ NumEq(Vec3_length(ret), One)

\* C4: Vec2::random_unit_vector and Vec4::random_unit_vector return a vector
\* of length 1 for every draw of the components from [0, 1].
C4_RandomUnitVectorHasLengthOne ==
    /\ Done("Vec2_random_unit_vector") => NumEq(Vec2_length(ret), One)
    /\ Done("Vec4_random_unit_vector") => NumEq(Vec4_length(ret), One)

\* C5 as stated: for every inclusive range and every v, clamp(v) lies in
\* [start, end].
C5_ClampWithinAnyRange ==
    Done("clamp") =>
        /\ LessEq(args.range.start, ret)
        /\ LessEq(ret, args.range.end)

\* C5 amended: for every inclusive range with start <= end and every v,
\* clamp(v) is start when v < start, end when v > end and v itself otherwise,
\* and so lies in [start, end].
C5_ClampWithinWellFormedRange ==
    (Done("clamp") /\ LessEq(args.range.start, args.range.end)) =>
        LET start == args.range.start
            end == args.range.end
            v == args.value
        IN  /\ LessEq(start, ret) /\ LessEq(ret, end)
            /\ ret = (IF Less(v, start) THEN start ELSE IF Less(end, v) THEN end ELSE v)
            /\ (LessEq(start, v) /\ LessEq(v, end)) => ret = v

\* clamp of a value above the end of a proper range returns the end.
C5_Witness ==
    /\ Done("clamp")
    /\ Less(args.range.start, args.range.end)
    /\ Less(args.range.end, args.value)
    /\ ret = args.range.end

\* C6: surrounds(v) is true exactly when start < v and v < end; it is false
\* when v == start and when v == end.
C6_SurroundsIsStrict ==
    Done("surrounds") =>
        LET start == args.range.start
            end == args.range.end
            v == args.value
        IN  /\ ret = (Less(start, v) /\ Less(v, end))
            /\ v = start => ret = FALSE
            /\ v = end => ret = FALSE
            /\ (LessEq(start, v) /\ LessEq(v, end) /\ v # start /\ v # end) => ret = TRUE

\* surrounds asked about the start of a proper range answers false.
C6_Witness ==
    /\ Done("surrounds")
    /\ Less(args.range.start, args.range.end)
    /\ args.value = args.range.start
    /\ ret = FALSE

\* C7: a.lerp(b, 0) is b and a.lerp(b, 1) is a, for scalars and for Vec3.
C7_LerpEndpointsReversed ==
    (Done("f64_lerp") \/ Done("Vec3_lerp")) =>
        /\ args.fac = Zero => ret = args.rhs
        /\ args.fac = One => ret = args.self

\* A Vec3 lerp of two different vectors at fac = 0, which returned b.
C7_Witness ==
    /\ Done("Vec3_lerp")
    /\ args.fac = Zero
    /\ args.self # args.rhs
    /\ ret = args.rhs

\* C8: expand(delta) is [start - delta/2, end + delta/2] for the start and end
\* of the receiver (which the call only borrows and does not change), its
\* size is the receiver's size plus delta, and (0..=10).expand(4) is -2..=12.
C8_ExpandGrowsSizeByDelta ==
    Done("expand") =>
        LET range == args.range
            delta == args.delta
            two == Num(2, 1)
        IN  /\ NumEq(Mul(two, Sub(range.start, ret.start)), delta)
            /\ NumEq(Mul(two, Sub(ret.end, range.end)), delta)
            /\ NumEq(size(ret), Add(size(range), delta))
            /\ (range = [start |-> Zero, end |-> Num(10, 1)] /\ delta = Num(4, 1))
                  => ret = [start |-> Num(-2, 1), end |-> Num(12, 1)]

\* expand of 0..=10 by a negative delta.
C8_Witness ==
    /\ Done("expand")
    /\ args.range = [start |-> Zero, end |-> Num(10, 1)]
    /\ Less(args.delta, Zero)
    /\ Less(size(ret), size(args.range))

\* The sum of the products of the components, for C9's precondition.
Perpendicular(v, n) ==
    Add(Add(Mul(v.x, n.x), Mul(v.y, n.y)), Mul(v.z, n.z)) = Zero

\* C9: v.reflect(n) is v whenever v.dot(n) == 0; (1,0,0).reflect((0,1,0)) is
\* (1,0,0).
C9_ReflectPerpendicularIsNoOp ==
    (Done("reflect") /\ Perpendicular(args.self, args.normal)) => ret = args.self

\* (1,0,0) reflected off (0,1,0).
C9_Witness ==
    /\ Done("reflect")
    /\ args.self = Vec3_new(One, Zero, Zero)
    /\ args.normal = Vec3_new(Zero, One, Zero)
    /\ ret = Vec3_new(One, Zero, Zero)

LoopOps == {"random_in_unit_sphere", "random_unit_vector", "random_in_unit_disk"}

InLoop == op \in LoopOps /\ pc \in {"draw", "test"}

\* The candidates the three loops are meant to accept.
Acceptable(name, p) ==
    LET lensq == Vec3_length_squared(p)
    IN  IF name = "random_unit_vector"
        THEN Less(MinLenSq, lensq) /\ LessEq(lensq, One)
        ELSE Less(lensq, One)

\* C10: the loops of random_in_unit_sphere, random_unit_vector and
\* random_in_unit_disk are left only by returning an accepted candidate: a
\* rejected candidate always sends the loop round (no cap, no error exit, so
\* a run that draws only rejected candidates never returns), a loop can always
\* take its next step, and with fair draws every call eventually returns.
C10_LoopsEndOnlyByAccepting ==
    /\ [][InLoop => \/ (pc = "draw" /\ pc' = "test")
                    \/ (pc = "test" /\ ~Acceptable(op, cand) /\ pc' = "draw")
                    \/ (pc = "test" /\ Acceptable(op, cand) /\ pc' = "done")]_vars
    /\ [](InLoop => ENABLED NextSamplers)
    /\ (InLoop ~> pc = "done")

\* A call of random_in_unit_disk that went round its loop and then returned.
C10_Witness ==
    /\ Done("random_in_unit_disk")
    /\ retried
    /\ Acceptable(op, ret)

====
